---- MODULE Spec2Model ----
(***************************************************************************)
(* Model of src/main.py: the classification router (get_mathbot_answer,    *)
(* make_openai_request), the arithmetic-expression validator               *)
(* (convert_arithmetic_expressions) and the prompt selection               *)
(* (get_altered_system_prompt).                                            *)
(*                                                                         *)
(* A Python str is a sequence of symbols.  Text the code inspects          *)
(* (str.isdigit, startswith, endswith, split, strip, eval, the format      *)
(* mini-language) is kept character by character; the long fixed prompt    *)
(* bodies, which the code only stores and concatenates, are one symbol     *)
(* each.  Three non-ASCII characters are written by name: "ELLIPSIS"       *)
(* (U+2026), "SUP2" (U+00B2, superscript two) and "FW3" (U+FF13, fullwidth *)
(* digit three).                                                           *)
(***************************************************************************)
EXTENDS Integers, Sequences, FiniteSets, TLC

(***************************************************************************)
(* Bounds of the model.                                                    *)
(***************************************************************************)
MaxQuestions == 2
MaxOperand == 10
MaxPowOperand == 4
MaxExprs == 2
MaxListOperand == 1

(***************************************************************************)
(* Characters and Python's str methods.                                    *)
(***************************************************************************)
AsciiDigits == {"0", "1", "2", "3", "4", "5", "6", "7", "8", "9"}

Letters == {"a", "b", "c", "d", "e", "f", "g", "h", "i", "j", "k", "l", "m",
            "n", "o", "p", "q", "r", "s", "t", "u", "v", "w", "x", "y", "z",
            "A", "B", "C", "D", "E", "F", "G", "H", "I", "J", "K", "L", "M",
            "N", "O", "P", "Q", "R", "S", "T", "U", "V", "W", "X", "Y", "Z",
            "_"}

Whitespace == {" ", "\n", "\t"}

DigitValue(c) ==
  CASE c = "0" -> 0 [] c = "1" -> 1 [] c = "2" -> 2 [] c = "3" -> 3
    [] c = "4" -> 4 [] c = "5" -> 5 [] c = "6" -> 6 [] c = "7" -> 7
    [] c = "8" -> 8 [] c = "9" -> 9 [] c = "FW3" -> 3

DigitChar(d) ==
  CASE d = 0 -> "0" [] d = 1 -> "1" [] d = 2 -> "2" [] d = 3 -> "3"
    [] d = 4 -> "4" [] d = 5 -> "5" [] d = 6 -> "6" [] d = 7 -> "7"
    [] d = 8 -> "8" [] d = 9 -> "9"

\* str.isdigit(): every character has the Unicode property Digit or Decimal,
\* and there is at least one character.
IsDigitChar(c) == c \in AsciiDigits \cup {"FW3", "SUP2"}

\* The characters int() accepts as digits: Unicode category Nd only.
IsDecimalChar(c) == c \in AsciiDigits \cup {"FW3"}

isdigit(s) == Len(s) > 0 /\ \A i \in 1..Len(s) : IsDigitChar(s[i])

startswith(s, prefix) ==
  Len(s) >= Len(prefix) /\ SubSeq(s, 1, Len(prefix)) = prefix

endswith(s, suffix) ==
  Len(s) >= Len(suffix) /\ SubSeq(s, Len(s) - Len(suffix) + 1, Len(s)) = suffix

\* s[1:-1]
Slice1Minus1(s) == IF Len(s) <= 2 THEN <<>> ELSE SubSeq(s, 2, Len(s) - 1)

RECURSIVE rstrip(_, _)
rstrip(s, chars) ==
  IF Len(s) > 0 /\ s[Len(s)] \in chars
  THEN rstrip(SubSeq(s, 1, Len(s) - 1), chars)
  ELSE s

RECURSIVE lstrip(_, _)
lstrip(s, chars) ==
  IF Len(s) > 0 /\ s[1] \in chars THEN lstrip(Tail(s), chars) ELSE s

strip(s) == rstrip(lstrip(s, Whitespace), Whitespace)

\* s.split(sep): the pieces between the non-overlapping occurrences of sep,
\* scanned left to right; always at least one piece. cur is the piece being
\* collected.
RECURSIVE SplitFrom(_, _, _)
SplitFrom(s, sep, cur) ==
  IF Len(s) = 0 THEN <<cur>>
  ELSE IF startswith(s, sep)
       THEN <<cur>> \o SplitFrom(SubSeq(s, Len(sep) + 1, Len(s)), sep, <<>>)
       ELSE SplitFrom(Tail(s), sep, Append(cur, s[1]))

split(s, sep) == SplitFrom(s, sep, <<>>)

\* sep.join(lines)
RECURSIVE join(_, _)
join(sep, lines) ==
  IF Len(lines) = 0 THEN <<>>
  ELSE IF Len(lines) = 1 THEN lines[1]
  ELSE lines[1] \o sep \o join(sep, Tail(lines))

\* str(n) of a Python int.
RECURSIVE NatToText(_)
NatToText(n) ==
  IF n < 10 THEN <<DigitChar(n)>>
  ELSE Append(NatToText(n \div 10), DigitChar(n % 10))

IntToText(n) == IF n < 0 THEN <<"-">> \o NatToText(-n) ELSE NatToText(n)

\* str(b) of a Python bool.
BoolToText(b) == IF b THEN <<"T", "r", "u", "e">> ELSE <<"F", "a", "l", "s", "e">>

\* The value of a string of decimal digits, base 10.
RECURSIVE DigitsValue(_)
DigitsValue(s) ==
  IF Len(s) = 0 THEN 0
  ELSE 10 * DigitsValue(SubSeq(s, 1, Len(s) - 1)) + DigitValue(s[Len(s)])

\* int(s) for a string that passed isdigit(): ok is FALSE where int() raises
\* ValueError (a digit character that is not a decimal digit).
PyInt(s) ==
  IF \A i \in 1..Len(s) : IsDecimalChar(s[i])
  THEN [ok |-> TRUE, n |-> DigitsValue(s)]
  ELSE [ok |-> FALSE, n |-> 0]

(***************************************************************************)
(* Python values, as far as eval() of an arithmetic expression produces    *)
(* them. k is the type: "int" (n is the value), "float" (the value is      *)
(* s * n / d with s the sign, n >= 0, d > 0, in lowest terms; the sign is  *)
(* kept apart because -0.0 prints its sign), "str", "func" (a builtin      *)
(* function), "tuple". Exc is a raised exception of any type: the caller's *)
(* bare except catches them all alike. Unmodelled marks an evaluation the  *)
(* model does not follow (float arithmetic on a value that a double does   *)
(* not hold exactly, operators applied to non-numbers); the inputs drawn   *)
(* by the specifications never evaluate to it.                             *)
(***************************************************************************)
IntVal(n) == [k |-> "int", s |-> 1, n |-> n, d |-> 1]
StrVal == [k |-> "str", s |-> 1, n |-> 0, d |-> 1]
FuncVal == [k |-> "func", s |-> 1, n |-> 0, d |-> 1]
TupleVal == [k |-> "tuple", s |-> 1, n |-> 0, d |-> 1]
Exc == [k |-> "exc", s |-> 1, n |-> 0, d |-> 1]
Unmodelled == [k |-> "unmodelled", s |-> 1, n |-> 0, d |-> 1]
Unbound == [k |-> "unbound", s |-> 1, n |-> 0, d |-> 1]

Abs(n) == IF n < 0 THEN -n ELSE n
Sign(n) == IF n < 0 THEN -1 ELSE 1

RECURSIVE GCD(_, _)
GCD(a, b) == IF b = 0 THEN a ELSE GCD(b, a % b)

\* The float of value sgn * num / den (num >= 0, den > 0).
FloatVal(sgn, num, den) ==
  LET g == IF num = 0 THEN den ELSE GCD(num, den)
  IN [k |-> "float", s |-> sgn, n |-> num \div g, d |-> den \div g]

RECURSIVE IsPowerOfTwo(_)
IsPowerOfTwo(d) == d = 1 \/ (d % 2 = 0 /\ IsPowerOfTwo(d \div 2))

IsNumber(v) == v.k \in {"int", "float"}

\* A number a double holds exactly (the magnitudes of the model are far
\* below 2^53).
IsExact(v) == v.k = "int" \/ (v.k = "float" /\ IsPowerOfTwo(v.d))

\* The signed numerator of a number over the denominator v.d.
Num(v) == IF v.k = "int" THEN v.n ELSE v.s * v.n

RECURSIVE IntPow(_, _)
IntPow(a, b) == IF b = 0 THEN 1 ELSE a * IntPow(a, b - 1)

\* The sign of a number, that of a float zero included.
SignOf(v) == IF v.k = "int" THEN Sign(v.n) ELSE v.s

\* The float of the signed fraction num / den (den # 0, num # 0).
FloatOfFraction(num, den) == FloatVal(Sign(num) * Sign(den), Abs(num), Abs(den))

(***************************************************************************)
(* Python's arithmetic operators on two evaluated operands.                *)
(***************************************************************************)
PyBinOp(op, a, b) ==
  IF a.k = "unmodelled" \/ b.k = "unmodelled" THEN Unmodelled
  ELSE IF a.k = "exc" \/ b.k = "exc" THEN Exc
  ELSE IF ~(IsNumber(a) /\ IsNumber(b)) THEN Unmodelled
  ELSE IF ~(IsExact(a) /\ IsExact(b)) THEN Unmodelled
  ELSE IF a.k = "int" /\ b.k = "int"
  THEN CASE op = "+" -> IntVal(a.n + b.n)
         [] op = "-" -> IntVal(a.n - b.n)
         [] op = "*" -> IntVal(a.n * b.n)
         [] op = "/" -> IF b.n = 0 THEN Exc
                        ELSE IF a.n = 0 THEN FloatVal(Sign(b.n), 0, 1)
                        ELSE FloatOfFraction(a.n, b.n)
         [] op = "//" -> IF b.n = 0 THEN Exc
                         ELSE IF b.n > 0 THEN IntVal(a.n \div b.n)
                         ELSE IntVal((-a.n) \div (-b.n))
         [] op = "**" -> IF b.n >= 0 THEN IntVal(IntPow(a.n, b.n))
                         ELSE IF a.n = 0 THEN Exc ELSE Unmodelled
  ELSE \* float arithmetic on exactly held operands: the exact result of
       \* + - * is again exactly held, that of / is rounded once.
       IF op = "/" /\ Num(b) = 0 THEN Exc
       ELSE IF op = "/" /\ Num(a) = 0
       THEN FloatVal(SignOf(a) * SignOf(b), 0, 1)
       ELSE IF Num(a) = 0 \/ Num(b) = 0 THEN Unmodelled
       ELSE CASE op = "+" ->
                   LET num == Num(a) * b.d + Num(b) * a.d
                   IN IF num = 0 THEN FloatVal(1, 0, 1)
                      ELSE FloatOfFraction(num, a.d * b.d)
              [] op = "-" ->
                   LET num == Num(a) * b.d - Num(b) * a.d
                   IN IF num = 0 THEN FloatVal(1, 0, 1)
                      ELSE FloatOfFraction(num, a.d * b.d)
              [] op = "*" -> FloatOfFraction(Num(a) * Num(b), a.d * b.d)
              [] op = "/" -> FloatOfFraction(Num(a) * b.d, a.d * Num(b))
              [] op = "//" -> Unmodelled
              [] op = "**" -> Unmodelled

PyUnaryOp(op, a) ==
  IF a.k = "unmodelled" THEN Unmodelled
  ELSE IF a.k = "exc" THEN Exc
  ELSE IF ~IsNumber(a) THEN Exc
  ELSE IF op = "+" THEN a
  ELSE IF a.k = "int" THEN IntVal(-a.n)
  ELSE [a EXCEPT !.s = -a.s]

\* callee(args) with the evaluated arguments: abs is the one builtin the
\* model calls; calling a number, a str or a tuple raises TypeError.
PyCall(callee, args) ==
  IF callee.k = "unmodelled" \/ \E i \in 1..Len(args) : args[i].k = "unmodelled"
  THEN Unmodelled
  ELSE IF callee.k = "exc" \/ \E i \in 1..Len(args) : args[i].k = "exc" THEN Exc
  ELSE IF callee.k # "func" THEN Exc
  ELSE IF Len(args) # 1 THEN Exc
  ELSE IF args[1].k = "int" THEN IntVal(Abs(args[1].n))
  ELSE IF args[1].k = "float" THEN [args[1] EXCEPT !.s = 1]
  ELSE Exc

(***************************************************************************)
(* The lexical analysis of eval(): decimal integer literals, names, the    *)
(* operators + - * / // ** and the delimiters ( ) and the comma. A token   *)
(* is [t, n, name, op]; t = "bad" is a lexical error (SyntaxError), after  *)
(* which nothing more is read. The texts the specifications draw are over  *)
(* digits, letters, the underscore, blanks and these operators.            *)
(***************************************************************************)
NumTok(n) == [t |-> "num", n |-> n, name |-> <<>>, op |-> ""]
NameTok(name) == [t |-> "name", n |-> 0, name |-> name, op |-> ""]
OpTok(op) == [t |-> "op", n |-> 0, name |-> <<>>, op |-> op]
BadTok == [t |-> "bad", n |-> 0, name |-> <<>>, op |-> ""]

\* The length of the longest prefix of s made of characters of chars.
RECURSIVE RunLength(_, _)
RunLength(s, chars) ==
  IF Len(s) > 0 /\ s[1] \in chars THEN 1 + RunLength(Tail(s), chars) ELSE 0

RECURSIVE Tokenize(_)
Tokenize(s) ==
  IF Len(s) = 0 THEN <<>>
  ELSE LET c == s[1]
           rest == Tail(s)
       IN IF c \in {" ", "\t"} THEN Tokenize(rest)
          ELSE IF c \in AsciiDigits
          THEN LET len == RunLength(s, AsciiDigits)
                   digits == SubSeq(s, 1, len)
                   after == SubSeq(s, len + 1, Len(s))
               IN \* a literal runs into no name character, and only zero
                  \* is written with a leading zero
                  IF Len(after) > 0 /\ after[1] \in Letters THEN <<BadTok>>
                  ELSE IF len > 1 /\ digits[1] = "0" /\ DigitsValue(digits) # 0
                  THEN <<BadTok>>
                  ELSE <<NumTok(DigitsValue(digits))>> \o Tokenize(after)
          ELSE IF c \in Letters
          THEN LET len == RunLength(s, Letters \cup AsciiDigits)
               IN <<NameTok(SubSeq(s, 1, len))>>
                    \o Tokenize(SubSeq(s, len + 1, Len(s)))
          ELSE IF c \in {"*", "/"} /\ Len(rest) > 0 /\ rest[1] = c
          THEN <<OpTok(IF c = "*" THEN "**" ELSE "//")>> \o Tokenize(Tail(rest))
          ELSE IF c \in {"+", "-", "*", "/", "(", ")", ","}
          THEN <<OpTok(c)>> \o Tokenize(rest)
          ELSE <<BadTok>>

(***************************************************************************)
(* Name resolution of eval(exp) as convert_arithmetic_expressions calls    *)
(* it: with no namespace argument, eval sees the locals of the calling     *)
(* function, then the module's globals, then the builtins. env holds what  *)
(* the model follows of them: the global total_num_tokens_used and the     *)
(* local result (bound once an earlier eval of the same call returned).    *)
(* A name bound nowhere raises NameError.                                  *)
(***************************************************************************)
Name_total_num_tokens_used ==
  <<"t", "o", "t", "a", "l", "_", "n", "u", "m", "_", "t", "o", "k", "e",
    "n", "s", "_", "u", "s", "e", "d">>
Name_result == <<"r", "e", "s", "u", "l", "t">>
Name_exp == <<"e", "x", "p">>
Name_abs == <<"a", "b", "s">>

Lookup(name, env) ==
  IF name = Name_result
  THEN IF env.result.k = "unbound" THEN Exc ELSE env.result
  ELSE IF name = Name_exp THEN StrVal
  ELSE IF name = Name_total_num_tokens_used
  THEN IntVal(env.total_num_tokens_used)
  ELSE IF name = Name_abs THEN FuncVal
  ELSE Exc

(***************************************************************************)
(* The parser and evaluator of eval(), by recursive descent over the       *)
(* tokens T, in Python's precedence: a tuple display (commas), + and -,    *)
(* then * / //, then unary + and -, then ** (right operand a unary         *)
(* expression), then calls, then atoms. Parse(nt, T, x, env) reads the     *)
(* nonterminal nt from position x.p and returns [v, p]: the value (Exc for *)
(* a SyntaxError or an exception raised while evaluating) and the position *)
(* of the next token. For the nonterminals that continue something already *)
(* read ("expr_rest", "term_rest", "trailers", "tuple_rest"), x.v is the   *)
(* value read so far.                                                      *)
(***************************************************************************)
IsOp(T, p, ops) == p <= Len(T) /\ T[p].t = "op" /\ T[p].op \in ops

Failed(r) == r.v.k = "exc"

At(p) == [v |-> TupleVal, p |-> p]

\* The value of a tuple display after one more element of value v.
TupleWith(acc, v) == IF v.k = "unmodelled" THEN Unmodelled ELSE acc

RECURSIVE Parse(_, _, _, _)
Parse(nt, T, x, env) ==
  CASE nt = "expr" -> Parse("expr_rest", T, Parse("term", T, x, env), env)
    [] nt = "expr_rest" ->
         \* x is the sum read so far; further + - operands, left to right
         IF Failed(x) \/ ~IsOp(T, x.p, {"+", "-"}) THEN x
         ELSE LET r == Parse("term", T, At(x.p + 1), env)
              IN Parse("expr_rest", T,
                       [v |-> PyBinOp(T[x.p].op, x.v, r.v), p |-> r.p], env)
    [] nt = "term" -> Parse("term_rest", T, Parse("factor", T, x, env), env)
    [] nt = "term_rest" ->
         \* x is the term read so far; further * / // operands, left to right
         IF Failed(x) \/ ~IsOp(T, x.p, {"*", "/", "//"}) THEN x
         ELSE LET r == Parse("factor", T, At(x.p + 1), env)
              IN Parse("term_rest", T,
                       [v |-> PyBinOp(T[x.p].op, x.v, r.v), p |-> r.p], env)
    [] nt = "factor" ->
         IF IsOp(T, x.p, {"+", "-"})
         THEN LET r == Parse("factor", T, At(x.p + 1), env)
              IN [v |-> PyUnaryOp(T[x.p].op, r.v), p |-> r.p]
         ELSE Parse("power", T, x, env)
    [] nt = "power" ->
         LET b == Parse("trailers", T, Parse("atom", T, x, env), env)
             e == Parse("factor", T, At(b.p + 1), env)
         IN IF Failed(b) \/ ~IsOp(T, b.p, {"**"}) THEN b
            ELSE [v |-> PyBinOp("**", b.v, e.v), p |-> e.p]
    [] nt = "trailers" ->
         \* the calls that follow the primary x: x(), x(a), x(a, ...)
         IF Failed(x) \/ ~IsOp(T, x.p, {"("}) THEN x
         ELSE IF IsOp(T, x.p + 1, {")"})
         THEN Parse("trailers", T, [v |-> PyCall(x.v, <<>>), p |-> x.p + 2], env)
         ELSE LET e == Parse("expr", T, At(x.p + 1), env)
                  t == Parse("tuple_rest", T,
                             [v |-> TupleWith(TupleVal, e.v), p |-> e.p], env)
              IN IF Failed(e) THEN e
                 ELSE IF IsOp(T, e.p, {")"})
                 THEN Parse("trailers", T,
                            [v |-> PyCall(x.v, <<e.v>>), p |-> e.p + 1], env)
                 ELSE IF ~IsOp(T, e.p, {","}) THEN [v |-> Exc, p |-> e.p]
                 ELSE IF Failed(t) THEN t
                 ELSE IF IsOp(T, t.p, {")"})
                 THEN Parse("trailers", T,
                            [v |-> PyCall(x.v, <<e.v, t.v>>), p |-> t.p + 1], env)
                 ELSE [v |-> Exc, p |-> t.p]
    [] nt = "atom" ->
         IF x.p > Len(T) THEN [v |-> Exc, p |-> x.p]
         ELSE IF T[x.p].t = "num" THEN [v |-> IntVal(T[x.p].n), p |-> x.p + 1]
         ELSE IF T[x.p].t = "name"
         THEN [v |-> Lookup(T[x.p].name, env), p |-> x.p + 1]
         ELSE IF IsOp(T, x.p, {"("})
         THEN IF IsOp(T, x.p + 1, {")"}) THEN [v |-> TupleVal, p |-> x.p + 2]
              ELSE LET e == Parse("expr", T, At(x.p + 1), env)
                       t == Parse("tuple_rest", T,
                                  [v |-> TupleWith(TupleVal, e.v), p |-> e.p], env)
                   IN IF Failed(e) THEN e
                      ELSE IF IsOp(T, e.p, {")"}) THEN [v |-> e.v, p |-> e.p + 1]
                      ELSE IF ~IsOp(T, e.p, {","}) THEN [v |-> Exc, p |-> e.p]
                      ELSE IF Failed(t) THEN t
                      ELSE IF IsOp(T, t.p, {")"}) THEN [v |-> t.v, p |-> t.p + 1]
                      ELSE [v |-> Exc, p |-> t.p]
         ELSE [v |-> Exc, p |-> x.p]
    [] nt = "tuple_rest" ->
         \* after an element, at a comma: the further elements of a tuple
         \* display; x.v is TupleVal, or Unmodelled once an element is
         IF ~IsOp(T, x.p, {","}) THEN x
         ELSE IF x.p + 1 > Len(T) \/ IsOp(T, x.p + 1, {")"})
         THEN [v |-> x.v, p |-> x.p + 1]
         ELSE LET e == Parse("expr", T, At(x.p + 1), env)
              IN IF Failed(e) THEN e
                 ELSE Parse("tuple_rest", T,
                            [v |-> TupleWith(x.v, e.v), p |-> e.p], env)

\* The value of the token sequence T whose first expression e has been read:
\* T must be that expression, or a tuple display that starts with it.
EvalTupleEnd(T, t) == IF Failed(t) \/ t.p <= Len(T) THEN Exc ELSE t.v

EvalEnd(T, e, env) ==
  IF Failed(e) THEN Exc
  ELSE IF e.p > Len(T) THEN e.v
  ELSE IF ~IsOp(T, e.p, {","}) THEN Exc
  ELSE EvalTupleEnd(T, Parse("tuple_rest", T,
                             [v |-> TupleWith(TupleVal, e.v), p |-> e.p], env))

EvalTokens(T, env) == EvalEnd(T, Parse("expr", T, At(1), env), env)

\* eval(exp): the whole text must be one expression or one tuple display.
PyEval(exp, env) == EvalTokens(Tokenize(exp), env)

(***************************************************************************)
(* The result formatting of convert_arithmetic_expressions.                *)
(***************************************************************************)
Ellipsis == <<"ELLIPSIS">>

\* The n-digit decimal numeral of q, zero padded on the left.
RECURSIVE ZeroPadded(_, _)
ZeroPadded(q, n) ==
  IF n = 0 THEN <<>>
  ELSE Append(ZeroPadded(q \div 10, n - 1), DigitChar(q % 10))

\* f"{result:.4f}" of a float: the decimal numeral with 4 fractional digits
\* nearest to the value, a tie going to the even last digit. (A tie needs a
\* denominator that is a multiple of 32; below 160 such a value is exactly
\* held by the double, so the tie is one for the double as well.)
FormatFixed4(v) ==
  LET scaled == v.n * 10000
      q == scaled \div v.d
      r == scaled % v.d
      rounded == IF 2 * r > v.d \/ (2 * r = v.d /\ q % 2 = 1) THEN q + 1 ELSE q
  IN (IF v.s = -1 THEN <<"-">> ELSE <<>>)
       \o NatToText(rounded \div 10000) \o <<".">>
       \o ZeroPadded(rounded % 10000, 4)

\* float(text) of a decimal numeral [-]digits[.digits], as a float value.
PyFloat(text) ==
  LET neg == Len(text) > 0 /\ text[1] = "-"
      body == IF neg THEN Tail(text) ELSE text
      ilen == RunLength(body, AsciiDigits)
      ipart == SubSeq(body, 1, ilen)
      fpart == IF ilen < Len(body) THEN SubSeq(body, ilen + 2, Len(body))
               ELSE <<>>
      scale == IntPow(10, Len(fpart))
  IN FloatVal(IF neg THEN -1 ELSE 1,
              DigitsValue(ipart) * scale + DigitsValue(fpart), scale)

\* x == y of two floats (-0.0 == 0.0). The two doubles are equal exactly when
\* the values are: both are the correctly rounded double of their value, and
\* two different values of the model lie many doubles apart.
FloatEq(x, y) == x.n * y.d = y.n * x.d /\ (x.n = 0 \/ x.s = y.s)

\* formatted_result, with the marker appended if float(formatted_result)
\* differs from result.
WithEllipsis(formatted_result, result) ==
  IF ~FloatEq(PyFloat(formatted_result), result)
  THEN formatted_result \o Ellipsis
  ELSE formatted_result

\* The formatted_result of a float result.
FormatFloat(result) ==
  WithEllipsis(rstrip(rstrip(FormatFixed4(result), {"0"}), {"."}), result)

(***************************************************************************)
(* convert_arithmetic_expressions(input_str). The loop over expressions is *)
(* ConvertLoop: i is the index of the next expression, output the lines so *)
(* far, env the names eval sees (the local result once bound).             *)
(***************************************************************************)
NewEnv(tokens_used) == [total_num_tokens_used |-> tokens_used, result |-> Unbound]

RECURSIVE ConvertLoop(_, _, _, _)

\* ConvertResult with the except branch keeping the text of the expression as
\* a line of its own.
ConvertResultKeepingFailed(expressions, i, output, env, exp, result) ==
  IF result.k = "exc"
  THEN ConvertLoop(expressions, i + 1, Append(output, exp), env)
  ELSE IF result.k = "int"
  THEN ConvertLoop(expressions, i + 1,
         Append(output, exp \o <<" ", "=", " ">> \o IntToText(result.n)),
         [env EXCEPT !.result = result])
  ELSE IF result.k = "float"
  THEN ConvertLoop(expressions, i + 1,
         Append(output, exp \o <<" ", "=", " ">> \o FormatFloat(result)),
         [env EXCEPT !.result = result])
  ELSE ConvertLoop(expressions, i + 1, output, [env EXCEPT !.result = result])

\* The rest of the loop body once eval(exp) has returned result or raised.
ConvertResult(expressions, i, output, env, exp, result) ==
  IF result.k = "exc" THEN ConvertLoop(expressions, i + 1, output, env)
  ELSE IF result.k = "int"
  THEN ConvertLoop(expressions, i + 1,
         Append(output, exp \o <<" ", "=", " ">> \o IntToText(result.n)),
         [env EXCEPT !.result = result])
  ELSE IF result.k = "float"
  THEN ConvertLoop(expressions, i + 1,
         Append(output, exp \o <<" ", "=", " ">> \o FormatFloat(result)),
         [env EXCEPT !.result = result])
  ELSE ConvertLoop(expressions, i + 1, output, [env EXCEPT !.result = result])

\* The loop body for the stripped expression exp.
ConvertExpression(expressions, i, output, env, exp) ==
  ConvertResult(expressions, i, output, env, exp, PyEval(exp, env))

ConvertLoop(expressions, i, output, env) ==
  IF i > Len(expressions) THEN join(<<"\n">>, output)
  ELSE ConvertExpression(expressions, i, output, env, strip(expressions[i]))

convert_arithmetic_expressions(input_str, tokens_used) ==
  ConvertLoop(split(Slice1Minus1(input_str), <<",", " ">>), 1, <<>>,
              NewEnv(tokens_used))

(***************************************************************************)
(* The instructions. The body of each prompt is one symbol; the answer     *)
(* prompt is an f-string that ends with the equations and a line break.    *)
(***************************************************************************)
SYSTEM_PROMPT == <<"SYSTEM_PROMPT">>
ExtractionPrompt == <<"CALCULATION_BASED_EXTRACTION_PROMPT">>
AnswerPromptHead == <<"CALCULATION_BASED_ANSWER_PROMPT">>

UNDEFINED == 0
CALCULATION_BASED == 1
CONCEPTUAL_INFORMATIONAL == 2
MATH_PROBLEM_GENERATION == 3
GREETINGS_SOCIAL == 4
OFF_TOPIC == 5
MISCELLANEOUS == 6

\* get_altered_system_prompt with the answer prompt written without its
\* equations.
get_altered_system_prompt_bare(system_prompt_category, calculated, equations) ==
  IF system_prompt_category = CALCULATION_BASED
  THEN IF calculated = FALSE THEN ExtractionPrompt
       ELSE AnswerPromptHead \o <<"\n">>
  ELSE IF system_prompt_category = CONCEPTUAL_INFORMATIONAL
  THEN <<"CONCEPTUAL_INFORMATIONAL_PROMPT">>
  ELSE IF system_prompt_category = MATH_PROBLEM_GENERATION
  THEN <<"MATH_PROBLEM_GENERATION_PROMPT">>
  ELSE IF system_prompt_category = GREETINGS_SOCIAL
  THEN <<"GREETINGS_SOCIAL_PROMPT">>
  ELSE IF system_prompt_category = OFF_TOPIC
  THEN <<"OFF_TOPIC_PROMPT">>
  ELSE IF system_prompt_category = MISCELLANEOUS
  THEN <<"MISCELLANEOUS_PROMPT">>
  ELSE <<>>

get_altered_system_prompt(system_prompt_category, calculated, equations) ==
  IF system_prompt_category = CALCULATION_BASED
  THEN IF calculated = FALSE THEN ExtractionPrompt
       ELSE AnswerPromptHead \o equations \o <<"\n">>
  ELSE IF system_prompt_category = CONCEPTUAL_INFORMATIONAL
  THEN <<"CONCEPTUAL_INFORMATIONAL_PROMPT">>
  ELSE IF system_prompt_category = MATH_PROBLEM_GENERATION
  THEN <<"MATH_PROBLEM_GENERATION_PROMPT">>
  ELSE IF system_prompt_category = GREETINGS_SOCIAL
  THEN <<"GREETINGS_SOCIAL_PROMPT">>
  ELSE IF system_prompt_category = OFF_TOPIC
  THEN <<"OFF_TOPIC_PROMPT">>
  ELSE IF system_prompt_category = MISCELLANEOUS
  THEN <<"MISCELLANEOUS_PROMPT">>
  ELSE <<>>

(***************************************************************************)
(* num_tokens_from_messages(messages) for the default model "gpt-4", which *)
(* resolves to "gpt-4-0314": 3 tokens per message, the encoded length of   *)
(* every value, 3 tokens priming the reply. The encoding is tiktoken's;    *)
(* the model counts one token per symbol of the text.                      *)
(***************************************************************************)
tokens_per_message == 3

EncodedLength(value) == Len(value)

RECURSIVE MessagesTokens(_)
MessagesTokens(msgs) ==
  IF Len(msgs) = 0 THEN 0
  ELSE tokens_per_message + EncodedLength(msgs[1].role)
         + EncodedLength(msgs[1].content) + MessagesTokens(Tail(msgs))

num_tokens_from_messages(msgs) == MessagesTokens(msgs) + 3

(***************************************************************************)
(* The inputs: the questions asked, the texts the backend may reply at any *)
(* stage, and the messages of the errors it may raise.                     *)
(***************************************************************************)
Questions ==
  { <<"W", "h", "a", "t", " ", "i", "s", " ", "1", " ", "+", " ", "2", "?">>,
    <<"H", "e", "l", "l", "o">> }

Replies ==
  { <<"1">>, <<"2">>, <<"3">>, <<"4">>, <<"5">>, <<"6">>,
    <<"0">>, <<"7">>, <<"1", "2">>, <<"0", "1">>, <<"FW3">>, <<"SUP2">>, <<>>,
    <<"I", " ", "t", "h", "i", "n", "k", " ", "i", "t", "'", "s", " ", "3">>,
    <<"[", "1", " ", "+", " ", "2", ",", " ", "3", " ", "+", " ", "4", "]">>,
    <<"[", "x", " ", "+", " ", "1", "]">>,
    <<"[", "]">>,
    <<"[", "2", " ", "/", " ", "3", "]">>,
    <<"[", "t", "o", "t", "a", "l", "_", "n", "u", "m", "_", "t", "o", "k",
      "e", "n", "s", "_", "u", "s", "e", "d", "]">>,
    <<"[", "1", " ", "+", " ", "2", ",", " ", "r", "e", "s", "u", "l", "t", "]">>,
    <<"7", " ", "-", " ", "1">>,
    <<"[", "7", " ", "-", " ", "1">>,
    <<"#", "#", "#", "#", " ", "3">>,
    <<"E", "r", "r", "o", "r", ":", " ", "n", "o">> }

BackendErrors == { <<"RateLimitError">>, <<"APIConnectionError">> }

(***************************************************************************)
(* The state.                                                              *)
(*   pc         "idle" before the first call of get_mathbot_answer,        *)
(*              "request" at the entry of a call of make_openai_request,   *)
(*              "done" once get_mathbot_answer has returned                *)
(*   messages, system_prompt_category, is_calculated                       *)
(*              the arguments of the current call of make_openai_request   *)
(*   total_num_tokens_used  the module's global                            *)
(*   answer     what get_mathbot_answer returned (<<>> before it returns)  *)
(*   raised     the exception get_mathbot_answer caught, if any            *)
(*   dispatched the log of the calls of openai.ChatCompletion.create made  *)
(*              for the current question: what was sent, under which       *)
(*              arguments, and what came back                              *)
(*   asked      how many questions get_mathbot_answer was called with      *)
(*   drawn      the expressions the extraction reply was written from,     *)
(*              where a specification draws that reply from DrawnLists     *)
(*              (<<>> otherwise)                                           *)
(*   sheet      the spreadsheet, where a specification runs                *)
(*              write_mathbot_answers: the cells of columns A and C of     *)
(*              the rows from row 2 on (<<>> otherwise)                    *)
(*   batch      the position and the locals of write_mathbot_answers, and  *)
(*              what the current run has read, submitted and written       *)
(***************************************************************************)
VARIABLES pc, messages, system_prompt_category, is_calculated,
          total_num_tokens_used, answer, raised, dispatched, asked, drawn,
          sheet, batch

vars == <<pc, messages, system_prompt_category, is_calculated,
          total_num_tokens_used, answer, raised, dispatched, asked, drawn,
          sheet, batch>>

NoException == [type |-> "none", text |-> <<>>]

\* write_mathbot_answers has not been called.
NoRun ==
  [pc |-> "idle", i |-> 0, num_answers |-> 0, max_num_answers |-> 0,
   questions |-> <<>>, mathbot_answers |-> <<>>, ret |-> FALSE,
   submitted |-> <<>>, written |-> <<>>, store_ops |-> 0, start |-> <<>>,
   runs |-> 0, failure |-> "none"]

ErrorPrefix == <<"E", "r", "r", "o", "r", ":", " ">>

\* f"response_text: {response_text}, system_prompt_category:
\* {system_prompt_category}, is_calculated: {is_calculated}"
UnexpectedMessage(response_text, category, calculated) ==
  <<"r", "e", "s", "p", "o", "n", "s", "e", "_", "t", "e", "x", "t", ":", " ">>
    \o response_text
    \o <<",", " ", "s", "y", "s", "t", "e", "m", "_", "p", "r", "o", "m", "p",
         "t", "_", "c", "a", "t", "e", "g", "o", "r", "y", ":", " ">>
    \o IntToText(category)
    \o <<",", " ", "i", "s", "_", "c", "a", "l", "c", "u", "l", "a", "t", "e",
         "d", ":", " ">>
    \o BoolToText(calculated)

\* The message of the ValueError int(response_text) raises.
InvalidLiteralMessage(response_text) ==
  <<"i", "n", "v", "a", "l", "i", "d", " ", "l", "i", "t", "e", "r", "a", "l",
    " ", "f", "o", "r", " ", "i", "n", "t", "(", ")", " ", "w", "i", "t", "h",
    " ", "b", "a", "s", "e", " ", "1", "0", ":", " ", "'">>
    \o response_text \o <<"'">>

Init ==
  /\ pc = "idle"
  /\ messages = <<>>
  /\ system_prompt_category = UNDEFINED
  /\ is_calculated = FALSE
  /\ total_num_tokens_used = 0
  /\ answer = <<>>
  /\ raised = NoException
  /\ dispatched = <<>>
  /\ asked = 0
  /\ drawn = <<>>
  /\ sheet = <<>>
  /\ batch = NoRun

\* get_mathbot_answer(question) builds the conversation and calls
\* make_openai_request.
EnterGetMathbotAnswer(question) ==
  /\ pc' = "request"
  /\ messages' = << [role |-> <<"system">>, content |-> SYSTEM_PROMPT],
                    [role |-> <<"user">>, content |-> question] >>
  /\ system_prompt_category' = UNDEFINED
  /\ is_calculated' = FALSE
  /\ answer' = <<>>
  /\ raised' = NoException
  /\ dispatched' = <<>>
  /\ UNCHANGED total_num_tokens_used

\* get_mathbot_answer(question), up to its call of make_openai_request.
GetMathbotAnswer(question) ==
  /\ pc \in {"idle", "done"}
  /\ asked < MaxQuestions
  /\ EnterGetMathbotAnswer(question)
  /\ asked' = asked + 1

\* The entry of the log for the dispatch of the current call.
Dispatch(failed, text) ==
  [messages |-> messages, system_prompt_category |-> system_prompt_category,
   is_calculated |-> is_calculated, failed |-> failed, text |-> text]

\* Raise with get_mathbot_answer returning f"{e}", the marker left out.
RaiseWithoutMarker(type, text) ==
  /\ pc' = "done"
  /\ raised' = [type |-> type, text |-> text]
  /\ answer' = text

\* The exception e leaves make_openai_request and get_mathbot_answer returns
\* f"Error: {e}".
Raise(type, text) ==
  /\ pc' = "done"
  /\ raised' = [type |-> type, text |-> text]
  /\ answer' = ErrorPrefix \o text

\* Return with the final "else: return response_text" left out: the call falls
\* through to the raise at the end of make_openai_request.
ReturnFallsThrough(response_text) ==
  Raise("Exception",
        UnexpectedMessage(response_text, system_prompt_category, is_calculated))

\* make_openai_request returns response_text, which get_mathbot_answer returns.
Return(response_text) ==
  /\ pc' = "done"
  /\ raised' = NoException
  /\ answer' = response_text

\* Recurse with the assignment to messages[0]["content"] left out.
RecurseWithoutReplacing(altered_system_prompt, category, calculated) ==
  /\ pc' = "request"
  /\ system_prompt_category' = category
  /\ is_calculated' = calculated
  /\ UNCHANGED <<messages, answer, raised>>

\* Recurse calling make_openai_request(messages) with the defaults of its
\* other parameters.
RecurseDroppingCategory(altered_system_prompt, category, calculated) ==
  /\ pc' = "request"
  /\ messages' = [messages EXCEPT ![1].content = altered_system_prompt]
  /\ system_prompt_category' = UNDEFINED
  /\ is_calculated' = FALSE
  /\ UNCHANGED <<answer, raised>>

\* Recurse adding the new instruction to the conversation instead of
\* replacing the old one.
RecurseAppendingInstruction(altered_system_prompt, category, calculated) ==
  /\ pc' = "request"
  /\ messages' = Append(messages, [role |-> <<"system">>,
                                   content |-> altered_system_prompt])
  /\ system_prompt_category' = category
  /\ is_calculated' = calculated
  /\ UNCHANGED <<answer, raised>>

\* Recurse passing is_calculated=False in both recursive calls.
RecurseRepeatingStage(altered_system_prompt, category, calculated) ==
  /\ pc' = "request"
  /\ messages' = [messages EXCEPT ![1].content = altered_system_prompt]
  /\ system_prompt_category' = category
  /\ is_calculated' = FALSE
  /\ UNCHANGED <<answer, raised>>

\* make_openai_request calls itself with the instruction replaced.
Recurse(altered_system_prompt, category, calculated) ==
  /\ pc' = "request"
  /\ messages' = [messages EXCEPT ![1].content = altered_system_prompt]
  /\ system_prompt_category' = category
  /\ is_calculated' = calculated
  /\ UNCHANGED <<answer, raised>>

\* "if altered_system_prompt:" and what follows it: the instruction is
\* replaced and make_openai_request calls itself, or nothing is done and the
\* final raise is reached with the locals as they are (category is the local
\* system_prompt_category).
Reroute(altered_system_prompt, response_text, category, calculated) ==
  IF altered_system_prompt # <<>>
  THEN Recurse(altered_system_prompt, category, calculated)
  ELSE /\ Raise("Exception",
                UnexpectedMessage(response_text, category, is_calculated))
       /\ system_prompt_category' = category
       /\ UNCHANGED <<messages, is_calculated>>

\* One call of make_openai_request in which the backend replies response_text.
MakeOpenaiRequest(response_text) ==
  /\ pc = "request"
  /\ total_num_tokens_used' =
       total_num_tokens_used + num_tokens_from_messages(messages)
  /\ dispatched' = Append(dispatched, Dispatch(FALSE, response_text))
  /\ UNCHANGED asked
  /\ IF system_prompt_category = UNDEFINED
     THEN IF isdigit(response_text)
          THEN IF ~PyInt(response_text).ok
               THEN /\ Raise("ValueError", InvalidLiteralMessage(response_text))
                    /\ UNCHANGED <<messages, system_prompt_category,
                                   is_calculated>>
               ELSE Reroute(get_altered_system_prompt(PyInt(response_text).n,
                                                      FALSE, <<>>),
                            response_text, PyInt(response_text).n, FALSE)
          ELSE /\ Raise("Exception",
                        UnexpectedMessage(response_text, system_prompt_category,
                                          is_calculated))
               /\ UNCHANGED <<messages, system_prompt_category, is_calculated>>
     ELSE IF system_prompt_category = CALCULATION_BASED /\ is_calculated = FALSE
     THEN IF startswith(response_text, <<"[">>) /\ endswith(response_text, <<"]">>)
          THEN Reroute(get_altered_system_prompt(
                         system_prompt_category, TRUE,
                         convert_arithmetic_expressions(
                           response_text,
                           total_num_tokens_used
                             + num_tokens_from_messages(messages))),
                       response_text, system_prompt_category, TRUE)
          ELSE /\ Raise("Exception",
                        UnexpectedMessage(response_text, system_prompt_category,
                                          is_calculated))
               /\ UNCHANGED <<messages, system_prompt_category, is_calculated>>
     ELSE /\ Return(response_text)
          /\ UNCHANGED <<messages, system_prompt_category, is_calculated>>

\* MakeOpenaiRequestFails behind a retry wrapper: the error is swallowed and
\* the same conversation is dispatched again.
MakeOpenaiRequestRetries(text) ==
  /\ pc = "request"
  /\ Len(dispatched) < 3
  /\ total_num_tokens_used' =
       total_num_tokens_used + num_tokens_from_messages(messages)
  /\ dispatched' = Append(dispatched, Dispatch(TRUE, text))
  /\ UNCHANGED <<pc, messages, system_prompt_category, is_calculated, answer,
                 raised, asked>>

\* MakeOpenaiRequestFails adding to the counter after the call of the backend
\* instead of before it.
MakeOpenaiRequestFailsUncounted(text) ==
  /\ pc = "request"
  /\ dispatched' = Append(dispatched, Dispatch(TRUE, text))
  /\ Raise("BackendError", text)
  /\ UNCHANGED <<messages, system_prompt_category, is_calculated, asked,
                 total_num_tokens_used>>

\* One call of make_openai_request in which openai.ChatCompletion.create raises
\* an error with the message text: nothing catches it before get_mathbot_answer.
MakeOpenaiRequestFails(text) ==
  /\ pc = "request"
  /\ total_num_tokens_used' =
       total_num_tokens_used + num_tokens_from_messages(messages)
  /\ dispatched' = Append(dispatched, Dispatch(TRUE, text))
  /\ Raise("BackendError", text)
  /\ UNCHANGED <<messages, system_prompt_category, is_calculated, asked>>

Next ==
  \/ \E question \in Questions :
       GetMathbotAnswer(question) /\ UNCHANGED <<drawn, sheet, batch>>
  \/ \E response_text \in Replies :
       MakeOpenaiRequest(response_text) /\ UNCHANGED <<drawn, sheet, batch>>
  \/ \E text \in BackendErrors :
       MakeOpenaiRequestFails(text) /\ UNCHANGED <<drawn, sheet, batch>>

Spec == Init /\ [][Next]_vars

(***************************************************************************)
(* The calculation pipeline on generated extraction replies. An expression *)
(* is drawn as a description, [a, op, b] for the text "a op b" (pad blanks *)
(* before it) or a fixed text, and the reply is written from the list of   *)
(* descriptions, so that what the expressions are worth is known without   *)
(* reading the reply back.                                                 *)
(***************************************************************************)
Bin(a, op, b, pad) == [kind |-> "bin", a |-> a, op |-> op, b |-> b,
                       pad |-> pad, text |-> <<>>]
Fixed(kind, text) == [kind |-> kind, a |-> 0, op |-> "", b |-> 0, pad |-> 0,
                      text |-> text]

OpText(op) ==
  CASE op = "+" -> <<"+">> [] op = "-" -> <<"-">> [] op = "*" -> <<"*">>
    [] op = "/" -> <<"/">> [] op = "//" -> <<"/", "/">>
    [] op = "**" -> <<"*", "*">>

\* The expression as the reply spells it, without the blanks before it.
ExprText(d) ==
  IF d.kind = "bin"
  THEN IntToText(d.a) \o <<" ">> \o OpText(d.op) \o <<" ">> \o IntToText(d.b)
  ELSE d.text

Blanks(n) == [i \in 1..n |-> " "]

\* The reply "[e1, e2, ...]" written from the descriptions.
ReplyText(exprs) ==
  <<"[">>
    \o join(<<",", " ">>,
            [i \in 1..Len(exprs) |-> Blanks(exprs[i].pad) \o ExprText(exprs[i])])
    \o <<"]">>

\* An undefined name, a syntax error, a global of the program.
UndefinedNameExpr == Fixed("undefined", <<"x", " ", "+", " ", "1">>)
MalformedExpr == Fixed("malformed", <<"1", " ", "+">>)
GlobalNameExpr == Fixed("global", Name_total_num_tokens_used)

\* One expression alone: every operator over the operands up to MaxOperand
\* (the right one of either sign), powers of the operands up to
\* MaxPowOperand, and the quotients by 32, which fall halfway between two
\* numerals of 4 fractional digits.
SingleExprs ==
  { Bin(a, op, b, 0) : a \in 0..MaxOperand, b \in (-MaxOperand)..MaxOperand,
                       op \in {"+", "-", "*", "/", "//"} }
    \cup { Bin(a, "**", b, 0) : a \in 0..MaxPowOperand, b \in 0..MaxPowOperand }
    \cup { Bin(a, "/", 32, 0) : a \in 1..MaxOperand }

\* The expressions of the longer lists.
ListExprs ==
  { Bin(a, op, b, 0) : a \in 0..MaxListOperand, b \in 0..MaxListOperand,
                       op \in {"+", "/"} }
    \cup { Bin(1, "+", 2, 1), UndefinedNameExpr, MalformedExpr, GlobalNameExpr }

RECURSIVE ListsOfLength(_)
ListsOfLength(n) ==
  IF n = 0 THEN { <<>> }
  ELSE { Append(l, d) : l \in ListsOfLength(n - 1), d \in ListExprs }

DrawnLists ==
  { <<d>> : d \in SingleExprs }
    \cup UNION { ListsOfLength(n) : n \in 1..MaxExprs }

AnswerReplies ==
  { <<"#", "#", "#", "#", " ", "3">>, <<"[", "]">> }

\* The state in which make_openai_request is called to extract the
\* expressions: get_mathbot_answer(question) has dispatched the question once
\* and the backend has classified it as calculation-based.
CalcInit ==
  \E question \in Questions :
    LET sent == << [role |-> <<"system">>, content |-> SYSTEM_PROMPT],
                   [role |-> <<"user">>, content |-> question] >>
    IN /\ pc = "request"
       /\ messages = [sent EXCEPT ![1].content = ExtractionPrompt]
       /\ system_prompt_category = CALCULATION_BASED
       /\ is_calculated = FALSE
       /\ total_num_tokens_used = num_tokens_from_messages(sent)
       /\ answer = <<>>
       /\ raised = NoException
       /\ dispatched = << [messages |-> sent,
                           system_prompt_category |-> UNDEFINED,
                           is_calculated |-> FALSE, failed |-> FALSE,
                           text |-> <<"1">>] >>
       /\ asked = 1
       /\ drawn = <<>>
       /\ sheet = <<>>
       /\ batch = NoRun

\* The extraction stage: the backend replies the list written from exprs.
ExtractExpressions(exprs) ==
  /\ MakeOpenaiRequest(ReplyText(exprs))
  /\ drawn' = exprs
  /\ UNCHANGED <<sheet, batch>>

\* The answer stage: the backend replies response_text.
AnswerWithContext(response_text) ==
  /\ MakeOpenaiRequest(response_text)
  /\ UNCHANGED <<drawn, sheet, batch>>

CalcNext ==
  \/ /\ pc = "request" /\ is_calculated = FALSE
     /\ \E exprs \in DrawnLists : ExtractExpressions(exprs)
  \/ /\ pc = "request" /\ is_calculated = TRUE
     /\ \E response_text \in AnswerReplies : AnswerWithContext(response_text)
  \/ \E text \in BackendErrors :
       MakeOpenaiRequestFails(text) /\ UNCHANGED <<drawn, sheet, batch>>

CalcSpec == CalcInit /\ [][CalcNext]_vars

(***************************************************************************)
(* write_mathbot_answers(max_num_answers), one run per process. The sheet  *)
(* maps each row number from FirstRow on to the texts of its cells in      *)
(* column A (question) and column C (answer); an empty text is an empty    *)
(* cell. batch holds                                                       *)
(*   pc          "idle", "loop" (at the head of the for loop, before the   *)
(*               element of index i), "answering" (inside                  *)
(*               get_mathbot_answer), "returned", "crashed"                *)
(*   i, num_answers, max_num_answers, questions, mathbot_answers           *)
(*               the locals of the function                                *)
(*   ret         the value returned                                        *)
(*   failure     what raised the exception the function caught: "url",     *)
(*               "read", "write", "index" (a row without a cell), or       *)
(*               "none"                                                    *)
(*   submitted   the indexes i whose question this run has passed to       *)
(*               get_mathbot_answer, in order                              *)
(*   written     the updates of column C this run has made, in order       *)
(*   store_ops   how many calls of the Sheets API this run has made        *)
(*   start       the sheet as it was when the run started                  *)
(*   runs        how many runs have been started                           *)
(***************************************************************************)
MaxRows == 2
MaxRuns == 2
MaxBudget == 2

\* "Sheet1!A2:A", "Sheet1!C2:C", f"Sheet1!C{2+i}": the first row of data.
FirstRow == 2

Rows == FirstRow..(FirstRow + MaxRows - 1)

\* The marker the skip test looks for.
ErrorMarker == <<"E", "r", "r", "o", "r", ":", " ">>

\* What the first run may find in a cell of column A (nothing, a question)
\* and in a cell of column C: nothing, blanks only, the marker alone (the
\* error text of an exception whose message is empty). Answers and the other
\* error texts are there once a run has written them.
SheetQuestions == { <<>>, <<"H", "e", "l", "l", "o">> }

StoredAnswers == { <<>>, <<" ">>, ErrorMarker }

Sheets == [Rows -> [question : SheetQuestions, answer : StoredAnswers]]

\* What the backend may reply and raise during a run.
BatchReplies == { <<"2">>, <<>> }

BatchErrors == { <<"RateLimitError">> }

\* How values().get() returns a row whose cell is empty when a row below it
\* is not: a row without a cell, or a row with an empty text.
BlankRows == { <<>>, << <<>> >> }

\* The last row of the column that holds a text (FirstRow - 1 if none).
LastFilled(column) ==
  LET filled == { r \in Rows : column[r] # <<>> } \cup {FirstRow - 1}
  IN CHOOSE m \in filled : \A r \in filled : r <= m

\* result.get("values", []) of values().get() on a column from FirstRow
\* down: one row per sheet row up to the last filled one.
ColumnValues(column, blank) ==
  [k \in 1..(LastFilled(column) - FirstRow + 1) |->
     IF column[FirstRow + k - 1] = <<>> THEN blank
     ELSE <<column[FirstRow + k - 1]>>]

ColumnA == [r \in Rows |-> sheet[r].question]
ColumnC == [r \in Rows |-> sheet[r].answer]

BatchInit ==
  /\ pc = "idle"
  /\ messages = <<>>
  /\ system_prompt_category = UNDEFINED
  /\ is_calculated = FALSE
  /\ total_num_tokens_used = 0
  /\ answer = <<>>
  /\ raised = NoException
  /\ dispatched = <<>>
  /\ asked = 0
  /\ drawn = <<>>
  /\ sheet \in Sheets
  /\ batch = NoRun

\* The function returns ret; failure names the exception it caught, if any.
Finish(ret, failure) ==
  batch' = [batch EXCEPT !.pc = "returned", !.ret = ret, !.failure = failure]

\* A process starts and calls write_mathbot_answers(max_num_answers), which
\* runs up to its for loop: the URL has an identifier or not (url_ok), the
\* reads of column A and of column C succeed or one raises (fault).
StartRun(max_num_answers, url_ok, blank, fault) ==
  /\ batch.pc \in {"idle", "returned", "crashed"}
  /\ batch.runs < MaxRuns
  /\ pc' = "idle"
  /\ messages' = <<>>
  /\ system_prompt_category' = UNDEFINED
  /\ is_calculated' = FALSE
  /\ total_num_tokens_used' = 0
  /\ answer' = <<>>
  /\ raised' = NoException
  /\ dispatched' = <<>>
  /\ UNCHANGED <<asked, drawn, sheet>>
  /\ batch' =
       [pc |-> IF url_ok /\ fault = "none" THEN "loop" ELSE "returned",
        i |-> 0, num_answers |-> 0, max_num_answers |-> max_num_answers,
        questions |-> IF url_ok /\ fault = "none"
                      THEN ColumnValues(ColumnA, blank) ELSE <<>>,
        mathbot_answers |-> IF url_ok /\ fault = "none"
                            THEN ColumnValues(ColumnC, blank) ELSE <<>>,
        ret |-> FALSE,
        submitted |-> <<>>, written |-> <<>>,
        store_ops |-> IF ~url_ok THEN 0 ELSE IF fault = "A" THEN 1 ELSE 2,
        start |-> sheet, runs |-> batch.runs + 1,
        failure |-> IF ~url_ok THEN "url"
                    ELSE IF fault = "none" THEN "none" ELSE "read"]

\* BudgetLeft letting one more row through.
BudgetLeftInclusive(num_answers, max_num_answers) ==
  num_answers <= max_num_answers

\* num_answers < max_num_answers
BudgetLeft(num_answers, max_num_answers) == num_answers < max_num_answers

\* HoldsValidAnswer with the marker written without its final blank.
HoldsValidAnswerShortMarker(stored) ==
  strip(stored) # <<>>
    /\ ~startswith(strip(stored), <<"E", "r", "r", "o", "r", ":">>)

\* The skip test on the text of the answer cell read at the start of the run.
HoldsValidAnswer(stored) ==
  strip(stored) # <<>> /\ ~startswith(strip(stored), ErrorMarker)

\* One pass from the head of the for loop to the call of get_mathbot_answer,
\* to the next element, or out of the function.
LoopStep ==
  /\ batch.pc = "loop"
  /\ UNCHANGED <<asked, drawn, sheet>>
  /\ IF batch.i >= Len(batch.questions)
     THEN Finish(TRUE, "none")
     ELSE IF batch.questions[batch.i + 1] = <<>>
     THEN Finish(FALSE, "index")
     ELSE IF batch.questions[batch.i + 1][1] = <<>>
     THEN Finish(TRUE, "none")
     ELSE IF ~BudgetLeft(batch.num_answers, batch.max_num_answers)
     THEN Finish(TRUE, "none")
     ELSE IF batch.i < Len(batch.mathbot_answers)
               /\ batch.mathbot_answers[batch.i + 1] = <<>>
     THEN Finish(FALSE, "index")
     ELSE IF batch.i < Len(batch.mathbot_answers)
               /\ HoldsValidAnswer(batch.mathbot_answers[batch.i + 1][1])
     THEN batch' = [batch EXCEPT !.i = batch.i + 1]
     ELSE batch' = [batch EXCEPT !.pc = "answering",
                                 !.submitted = Append(batch.submitted, batch.i)]
  /\ IF batch'.pc = "answering"
     THEN EnterGetMathbotAnswer(batch.questions[batch.i + 1][1])
     ELSE UNCHANGED <<pc, messages, system_prompt_category, is_calculated,
                      total_num_tokens_used, answer, raised, dispatched>>

\* AnswerRow counting the header row twice.
AnswerRowOffByOne(i) == FirstRow + i + 1

\* The row f"Sheet1!C{2+i}" names.
AnswerRow(i) == FirstRow + i

\* WriteAnswer going on with the loop after an update that raised.
WriteAnswerSwallowingFault(fault) ==
  /\ batch.pc = "answering"
  /\ pc = "done"
  /\ sheet' = IF fault THEN sheet
              ELSE [sheet EXCEPT ![AnswerRow(batch.i)].answer = answer]
  /\ batch' = [batch EXCEPT
                 !.pc = "loop", !.i = batch.i + 1,
                 !.num_answers = batch.num_answers + 1,
                 !.store_ops = batch.store_ops + 1,
                 !.failure = IF fault THEN "write" ELSE "none",
                 !.written = IF fault THEN batch.written
                             ELSE Append(batch.written,
                                         [i |-> batch.i,
                                          row |-> AnswerRow(batch.i),
                                          text |-> answer,
                                          failed |-> raised.type # "none"])]
  /\ UNCHANGED <<pc, messages, system_prompt_category, is_calculated,
                 total_num_tokens_used, answer, raised, dispatched, asked,
                 drawn>>

\* get_mathbot_answer has returned: the answer is written to column C of the
\* row of the question and the row is counted, or the update raises and the
\* function returns False.
WriteAnswer(fault) ==
  /\ batch.pc = "answering"
  /\ pc = "done"
  /\ IF fault
     THEN /\ batch' = [batch EXCEPT !.pc = "returned", !.ret = FALSE,
                                    !.failure = "write",
                                    !.store_ops = batch.store_ops + 1]
          /\ UNCHANGED sheet
     ELSE /\ sheet' = [sheet EXCEPT ![AnswerRow(batch.i)].answer = answer]
          /\ batch' = [batch EXCEPT
                         !.pc = "loop", !.i = batch.i + 1,
                         !.num_answers = batch.num_answers + 1,
                         !.store_ops = batch.store_ops + 1,
                         !.written = Append(batch.written,
                                            [i |-> batch.i,
                                             row |-> AnswerRow(batch.i),
                                             text |-> answer,
                                             failed |-> raised.type # "none"])]
  /\ UNCHANGED <<pc, messages, system_prompt_category, is_calculated,
                 total_num_tokens_used, answer, raised, dispatched, asked,
                 drawn>>

\* The process is interrupted in the middle of a run: an interruption is not
\* an Exception, so the handler of the function does not see it.
Crash ==
  /\ batch.pc \in {"loop", "answering"}
  /\ batch' = [batch EXCEPT !.pc = "crashed"]
  /\ UNCHANGED <<pc, messages, system_prompt_category, is_calculated,
                 total_num_tokens_used, answer, raised, dispatched, asked,
                 drawn, sheet>>

BatchNext ==
  \/ \E max_num_answers \in 0..MaxBudget, blank \in BlankRows :
       StartRun(max_num_answers, TRUE, blank, "none")
  \/ \E max_num_answers \in 0..MaxBudget, fault \in {"A", "C"} :
       StartRun(max_num_answers, TRUE, <<>>, fault)
  \/ \E max_num_answers \in 0..MaxBudget :
       StartRun(max_num_answers, FALSE, <<>>, "none")
  \/ LoopStep
  \/ /\ batch.pc = "answering"
     /\ \E response_text \in BatchReplies :
          MakeOpenaiRequest(response_text) /\ UNCHANGED <<drawn, sheet, batch>>
  \/ /\ batch.pc = "answering"
     /\ \E text \in BatchErrors :
          MakeOpenaiRequestFails(text) /\ UNCHANGED <<drawn, sheet, batch>>
  \/ \E fault \in BOOLEAN : WriteAnswer(fault)
  \/ Crash

BatchSpec == BatchInit /\ [][BatchNext]_vars

(***************************************************************************)
(* The claims about the router, stated over the log of the dispatches of   *)
(* the current question: dispatched[1] is the classification dispatch,     *)
(* dispatched[2] the dispatch under the specialized instruction (for a     *)
(* calculation the extraction dispatch), dispatched[3] the answer dispatch *)
(* of a calculation. messages[1] is index 0 of the conversation.           *)
(***************************************************************************)
\* The specialized instruction of the category a digit names.
InstructionOfDigit(d) ==
  CASE d = 1 -> <<"CALCULATION_BASED_EXTRACTION_PROMPT">>
    [] d = 2 -> <<"CONCEPTUAL_INFORMATIONAL_PROMPT">>
    [] d = 3 -> <<"MATH_PROBLEM_GENERATION_PROMPT">>
    [] d = 4 -> <<"GREETINGS_SOCIAL_PROMPT">>
    [] d = 5 -> <<"OFF_TOPIC_PROMPT">>
    [] d = 6 -> <<"MISCELLANEOUS_PROMPT">>

\* The backend replied text to the classification dispatch.
ClassifiedAs(text) ==
  /\ Len(dispatched) >= 1
  /\ dispatched[1].system_prompt_category = UNDEFINED
  /\ ~dispatched[1].failed
  /\ dispatched[1].text = text

\* t occurs in s.
Carries(s, t) ==
  \E i \in 0..(Len(s) - Len(t)) : SubSeq(s, i + 1, i + Len(t)) = t

\* C1: when the category is still Undefined and the first reply is exactly
\* the digit d, 1 <= d <= 6, the instruction at index 0 of the conversation
\* is the specialized instruction of category d before the next dispatch and
\* in the next dispatch, which carries the same question under category d;
\* the reply "3" selects the Math-Problem-Generation instruction.
C1_DigitReplySelectsInstruction ==
  \A d \in 1..6 :
    ClassifiedAs(<<DigitChar(d)>>) =>
      /\ Len(dispatched) = 1 =>
           /\ pc = "request"
           /\ system_prompt_category = d
           /\ messages[1].content = InstructionOfDigit(d)
           /\ messages[2] = dispatched[1].messages[2]
      /\ Len(dispatched) >= 2 =>
           /\ dispatched[2].system_prompt_category = d
           /\ dispatched[2].messages[1].content = InstructionOfDigit(d)
           /\ dispatched[2].messages[2] = dispatched[1].messages[2]

\* The reply "3" was followed by a dispatch under the Math-Problem-Generation
\* instruction.
C1_Witness ==
  /\ ClassifiedAs(<<"3">>)
  /\ Len(dispatched) = 2
  /\ dispatched[2].messages[1].content = <<"MATH_PROBLEM_GENERATION_PROMPT">>

\* C2: a classification reply that is not a single digit from 1 to 6 ends
\* the question as a failure: no further dispatch is made, the instruction of
\* the conversation is still the classification instruction, and the failure
\* carries the raw reply, the category and the calculation-stage flag.
C2_OtherReplyFailsWithDiagnostics ==
  \A text \in Replies \ { <<DigitChar(d)>> : d \in 1..6 } :
    ClassifiedAs(text) =>
      /\ pc = "done"
      /\ Len(dispatched) = 1
      /\ messages[1].content = SYSTEM_PROMPT
      /\ raised.type # "none"
      /\ startswith(answer, ErrorPrefix)
      /\ Carries(raised.text, text)
      /\ Carries(raised.text,
                 <<"s", "y", "s", "t", "e", "m", "_", "p", "r", "o", "m", "p",
                   "t", "_", "c", "a", "t", "e", "g", "o", "r", "y", ":", " ">>)
      /\ Carries(raised.text,
                 <<"i", "s", "_", "c", "a", "l", "c", "u", "l", "a", "t", "e",
                   "d", ":", " ", "F", "a", "l", "s", "e">>)

\* C3: under a category from 2 to 6 exactly one further dispatch is made, of
\* the same question under the specialized instruction, and its reply is the
\* final answer as it is, whatever it is.
C3_OtherCategoriesAnswerOnce ==
  /\ (system_prompt_category \in 2..6 /\ pc = "request") => Len(dispatched) = 1
  /\ (Len(dispatched) >= 2 /\ dispatched[2].system_prompt_category \in 2..6) =>
       /\ Len(dispatched) = 2
       /\ pc = "done"
       /\ system_prompt_category = dispatched[2].system_prompt_category
       /\ dispatched[2].messages[1].content =
            InstructionOfDigit(dispatched[2].system_prompt_category)
       /\ dispatched[2].messages[2] = dispatched[1].messages[2]
       /\ ~dispatched[2].failed =>
            (answer = dispatched[2].text /\ raised = NoException)

\* Under category 3 the reply "1", itself a category digit, is the answer.
C3_Witness ==
  /\ pc = "done"
  /\ Len(dispatched) = 2
  /\ dispatched[2].system_prompt_category = MATH_PROBLEM_GENERATION
  /\ dispatched[2].text = <<"1">>
  /\ answer = <<"1">>

Bracketed(text) == startswith(text, <<"[">>) /\ endswith(text, <<"]">>)

\* The backend replied to the extraction dispatch of a calculation.
Extracted ==
  /\ Len(dispatched) >= 2
  /\ dispatched[2].system_prompt_category = CALCULATION_BASED
  /\ ~dispatched[2].failed

\* C4: the extraction reply of a calculation that does not start with "[" and
\* end with "]" ends the question as a failure with no answer dispatch; one
\* that does is followed by exactly one answer dispatch, whose instruction is
\* the answer prompt with the context in it (for the reply "[1 + 2, 3 + 4]"
\* the lines "1 + 2 = 3" and "3 + 4 = 7"), and the reply to it is the answer.
C4_ExtractionGatesAnswerStage ==
  Extracted =>
    IF Bracketed(dispatched[2].text)
    THEN /\ Len(dispatched) <= 3
         /\ Len(dispatched) = 2 => (pc = "request" /\ is_calculated = TRUE)
         /\ system_prompt_category = CALCULATION_BASED
         /\ startswith(messages[1].content, AnswerPromptHead)
         /\ endswith(messages[1].content, <<"\n">>)
         /\ dispatched[2].text
              = <<"[", "1", " ", "+", " ", "2", ",", " ", "3", " ", "+", " ",
                  "4", "]">>
            => messages[1].content
                 = AnswerPromptHead
                     \o <<"1", " ", "+", " ", "2", " ", "=", " ", "3", "\n",
                          "3", " ", "+", " ", "4", " ", "=", " ", "7", "\n">>
         /\ Len(dispatched) = 3 =>
              /\ pc = "done"
              /\ dispatched[3].is_calculated = TRUE
              /\ dispatched[3].system_prompt_category = CALCULATION_BASED
              /\ dispatched[3].messages = messages
              /\ ~dispatched[3].failed =>
                   (answer = dispatched[3].text /\ raised = NoException)
    ELSE /\ pc = "done"
         /\ Len(dispatched) = 2
         /\ raised.type = "Exception"
         /\ startswith(answer, ErrorPrefix)

\* The reply "[1 + 2, 3 + 4]" was followed by the answer dispatch, whose
\* reply is the answer.
C4_Witness ==
  /\ Extracted
  /\ dispatched[2].text
       = <<"[", "1", " ", "+", " ", "2", ",", " ", "3", " ", "+", " ", "4", "]">>
  /\ Len(dispatched) = 3
  /\ answer = <<"#", "#", "#", "#", " ", "3">>

\* Routing reached the final answer state: the last dispatch was replied to
\* at a stage whose reply is the answer.
ReachedFinalAnswer ==
  /\ Len(dispatched) >= 1
  /\ ~dispatched[Len(dispatched)].failed
  /\ \/ dispatched[Len(dispatched)].system_prompt_category \in 2..6
     \/ /\ dispatched[Len(dispatched)].system_prompt_category = 1
        /\ dispatched[Len(dispatched)].is_calculated = TRUE

\* C9: get_mathbot_answer returns a text whatever the backend does, every
\* exception being caught, and when routing did not reach the final answer
\* state the text starts with "Error:" (and otherwise no exception was
\* raised).
C9_ErrorsBecomeText ==
  /\ pc \in {"idle", "request", "done"}
  /\ pc = "done" =>
       /\ DOMAIN answer = 1..Len(answer)
       /\ ~ReachedFinalAnswer =>
            /\ raised.type # "none"
            /\ startswith(answer, <<"E", "r", "r", "o", "r", ":">>)
            /\ answer = <<"E", "r", "r", "o", "r", ":", " ">> \o raised.text
       /\ ReachedFinalAnswer => raised = NoException

\* A non-digit classification reply came back as an "Error:" text.
C9_Witness ==
  /\ pc = "done"
  /\ ClassifiedAs(<<"I", " ", "t", "h", "i", "n", "k", " ", "i", "t", "'", "s",
                    " ", "3">>)
  /\ raised.type = "Exception"
  /\ startswith(answer, <<"E", "r", "r", "o", "r", ":">>)

\* C10: a dispatch on which the backend fails is the last dispatch of its
\* question, at whatever stage, and its error is the one returned.
C10_NoRetryAfterBackendError ==
  \A i \in 1..Len(dispatched) :
    dispatched[i].failed =>
      /\ i = Len(dispatched)
      /\ pc = "done"
      /\ raised = [type |-> "BackendError", text |-> dispatched[i].text]
      /\ answer = ErrorPrefix \o dispatched[i].text

\* The backend failed on the answer dispatch of a calculation.
C10_Witness ==
  /\ Len(dispatched) = 3
  /\ dispatched[3].failed
  /\ dispatched[3].is_calculated = TRUE
  /\ pc = "done"

(***************************************************************************)
(* The claims about the validator, checked under CalcSpec, where the       *)
(* expressions of the extraction reply are known (drawn): the context is   *)
(* read back from the answer prompt the extraction stage left at index 0   *)
(* of the conversation, and compared with what arithmetic says of the      *)
(* expressions drawn.                                                      *)
(***************************************************************************)
\* The extraction reply was written from drawn and has been handled.
ExtractionDone == drawn # <<>>

\* The context between the head of the answer prompt and its final line
\* break, and its lines.
Context ==
  SubSeq(messages[1].content, Len(AnswerPromptHead) + 1,
         Len(messages[1].content) - 1)

ContextLines == IF Context = <<>> THEN <<>> ELSE split(Context, <<"\n">>)

\* The expression described by d evaluates to a number: arithmetic on two
\* integers does unless it divides by zero, the program's counter does, an
\* undefined name and a malformed text do not.
EvaluatesToNumber(d) ==
  \/ d.kind = "bin" /\ ~(d.op \in {"/", "//"} /\ d.b = 0)
  \/ d.kind = "global"

\* The expression described by d is integer arithmetic with an integer value:
\* + - * ** and floor division, and a division that leaves no remainder.
IntegerValued(d) ==
  /\ d.kind = "bin"
  /\ \/ d.op \in {"+", "-", "*", "**"}
     \/ d.op = "//" /\ d.b # 0
     \/ d.op = "/" /\ d.b # 0 /\ d.a % Abs(d.b) = 0

\* The integer value of such an expression (a >= 0).
IntegerValue(d) ==
  CASE d.op = "+" -> d.a + d.b
    [] d.op = "-" -> d.a - d.b
    [] d.op = "*" -> d.a * d.b
    [] d.op = "**" -> IntPow(d.a, d.b)
    [] d.op = "/" -> Sign(d.b) * (d.a \div Abs(d.b))
    [] d.op = "//" -> IF d.b > 0 THEN d.a \div d.b
                      ELSE -((d.a + (-d.b) - 1) \div (-d.b))

\* The expression described by d is a division with a fractional value.
FractionValued(d) ==
  d.kind = "bin" /\ d.op = "/" /\ d.b # 0 /\ d.a % Abs(d.b) # 0

\* The decimal numeral of n / 10000 without its trailing zeros.
Decimal4(n) ==
  rstrip(NatToText(n \div 10000) \o <<".">> \o ZeroPadded(n % 10000, 4), {"0"})

\* The value a / b of such a division cut after 4 fractional digits, the
\* marker appended if digits were cut off.
Truncated4(d) ==
  (IF d.b < 0 THEN <<"-">> ELSE <<>>)
    \o Decimal4((d.a * 10000) \div Abs(d.b))
    \o (IF (d.a * 10000) % Abs(d.b) # 0 THEN <<"ELLIPSIS">> ELSE <<>>)

\* The line of the context for the expression described by d when its
\* result is rendered as text.
LineOf(d, text) == ExprText(d) \o <<" ", "=", " ">> \o text

\* The lines of the context are those of the descriptions wanted, in order:
\* each line starts with the expression and " = ", and the line of integer
\* arithmetic without division ends with the integer value.
LinesMatch(lines, wanted) ==
  /\ Len(lines) = Len(wanted)
  /\ \A j \in 1..Len(wanted) :
       /\ j <= Len(lines)
       /\ startswith(lines[j], LineOf(wanted[j], <<>>))
       /\ (IntegerValued(wanted[j]) /\ wanted[j].op # "/") =>
            lines[j] = LineOf(wanted[j], IntToText(IntegerValue(wanted[j])))

\* C5: the context has exactly one line "expression = result" for each
\* expression of the bracketed list that evaluates to a number, in the order
\* of the list; an expression that does not is dropped and nothing is raised;
\* and the answer stage is entered even when the context is empty, as for
\* "[x + 1]".
C5_OneLinePerNumericExpression ==
  ExtractionDone =>
    /\ is_calculated = TRUE
    /\ raised.type \in {"none", "BackendError"}
    /\ Len(dispatched) = 2 => pc = "request"
    /\ messages[1].content = AnswerPromptHead \o Context \o <<"\n">>
    /\ LinesMatch(ContextLines, SelectSeq(drawn, EvaluatesToNumber))

\* Of two expressions one was dropped and the other has its line, and the
\* answer was given.
C5_Witness ==
  /\ Len(drawn) = 2
  /\ ~EvaluatesToNumber(drawn[1])
  /\ IntegerValued(drawn[2])
  /\ Len(ContextLines) = 1
  /\ pc = "done"
  /\ raised = NoException

\* C6: the result of an expression with a fractional value is the value cut
\* (not rounded) after 4 fractional digits, with the marker if and only if
\* digits were cut off, a value of at most 4 fractional digits being exact.
C6_FractionsAreTruncated ==
  (ExtractionDone /\ Len(drawn) = 1 /\ FractionValued(drawn[1])) =>
    Context = LineOf(drawn[1], Truncated4(drawn[1]))

\* C7: the result of integer arithmetic, a division without remainder
\* included, is the numeral of the integer value, with no decimal point and
\* no marker.
C7_IntegersAreExact ==
  (ExtractionDone /\ Len(drawn) = 1 /\ IntegerValued(drawn[1])) =>
    Context = LineOf(drawn[1], IntToText(IntegerValue(drawn[1])))

\* C8: an expression that refers to a name outside the numeric function
\* library (a variable, a global of the program) is rejected: no line of the
\* context is its line.
C8_NamesAreRejected ==
  ExtractionDone =>
    \A i \in 1..Len(drawn) :
      drawn[i].kind \in {"undefined", "global"} =>
        \A j \in 1..Len(ContextLines) :
          ~startswith(ContextLines[j], LineOf(drawn[i], <<>>))

(***************************************************************************)
(* The claims about write_mathbot_answers, checked under BatchSpec. A row  *)
(* r of the sheet is the element of index r - FirstRow of the columns      *)
(* read; batch.start is the sheet as the current run found it.             *)
(***************************************************************************)
RunStarted == batch.runs >= 1

\* The current run has passed the question of row r to get_mathbot_answer.
Submitted(r) ==
  \E k \in 1..Len(batch.submitted) : batch.submitted[k] = r - FirstRow

\* The current run has written the answer cell of row r.
Written(r) == \E k \in 1..Len(batch.written) : batch.written[k].row = r

\* The current run has left row r alone.
LeftAlone(r) ==
  ~Submitted(r) /\ ~Written(r) /\ sheet[r].answer = batch.start[r].answer

\* C11 as stated: a row whose answer cell at the start of the run is not
\* empty and does not start with the error marker is never submitted and
\* never written during the run.
C11_NonEmptyAnswerIsLeftAlone ==
  RunStarted =>
    \A r \in Rows :
      (batch.start[r].answer # <<>>
         /\ ~startswith(batch.start[r].answer,
                        <<"E", "r", "r", "o", "r", ":", " ">>))
        => LeftAlone(r)

\* C11 amended: a row whose answer cell at the start of the run, once its
\* leading and trailing whitespace is removed, is not empty and does not
\* start with the error marker "Error: " is never submitted and never written
\* during the run.
C11_ValidAnswerIsLeftAlone ==
  RunStarted =>
    \A r \in Rows :
      (rstrip(lstrip(batch.start[r].answer, {" ", "\n", "\t"}),
              {" ", "\n", "\t"}) # <<>>
         /\ ~startswith(rstrip(lstrip(batch.start[r].answer,
                                      {" ", "\n", "\t"}), {" ", "\n", "\t"}),
                        <<"E", "r", "r", "o", "r", ":", " ">>))
        => LeftAlone(r)

\* A run found the answer "2" in the first row, passed over it and submitted
\* the second row.
C11_Witness ==
  /\ RunStarted
  /\ batch.start[FirstRow].answer = <<"2">>
  /\ Submitted(FirstRow + 1)
  /\ LeftAlone(FirstRow)

\* The loop of the current run has gone past row r: the row was reached
\* while the budget lasted and before the loop stopped.
WentPast(r) == batch.i > r - FirstRow

\* C12: a row whose answer cell at the start of the run starts with the error
\* marker, and which the loop goes past, has been submitted and its cell
\* holds what the run wrote there.
C12_ErrorAnswerIsResubmitted ==
  RunStarted =>
    \A r \in Rows :
      (startswith(batch.start[r].answer,
                  <<"E", "r", "r", "o", "r", ":", " ">>) /\ WentPast(r))
        => /\ Submitted(r)
           /\ \E k \in 1..Len(batch.written) :
                batch.written[k].row = r /\ sheet[r].answer = batch.written[k].text

\* C13: a run with budget max_num_answers submits at most that many
\* questions and writes at most that many cells; the rows counted are
\* exactly the rows attempted and written, whether the text written is an
\* answer or an error text, so a row passed over counts for nothing; with a
\* budget of 0 nothing is submitted.
C13_BudgetBoundsSubmissions ==
  RunStarted =>
    /\ Len(batch.submitted) <= batch.max_num_answers
    /\ Len(batch.written) <= batch.max_num_answers
    /\ batch.num_answers = Len(batch.written)
    /\ Len(batch.written) <= Len(batch.submitted)
    /\ Len(batch.submitted) <= Len(batch.written) + 1
    /\ \A k \in 1..Len(batch.written) :
         batch.written[k].i = batch.submitted[k]
    /\ (batch.max_num_answers = 0 => batch.submitted = <<>>)

\* A run with budget 1 passed over the first row, which held an answer, spent
\* its budget on the error text of the second row and returned.
C13_Witness ==
  /\ RunStarted
  /\ batch.pc = "returned"
  /\ batch.max_num_answers = 1
  /\ batch.start[FirstRow].answer = <<"2">>
  /\ batch.submitted = <<1>>
  /\ Len(batch.written) = 1
  /\ batch.written[1].failed
  /\ batch.num_answers = 1

(***************************************************************************)
(* The claims about the life of one question in the router, checked under  *)
(* Spec.                                                                   *)
(***************************************************************************)
\* C14: the category is Undefined at the first dispatch of a question and at
\* no later one; every later dispatch, and every later call, runs under the
\* category the first reply resolved (d for the reply "d"), whatever the
\* replies in between are, digits included; a reply after the first is never
\* read as a category: a final answer that is a digit is returned as it is,
\* and a digit in place of the list of expressions fails the question under
\* its category.
C14_CategoryResolvedOnce ==
  /\ (pc = "request" /\ dispatched = <<>>) => system_prompt_category = UNDEFINED
  /\ \A k \in 1..Len(dispatched) :
       /\ k = 1 => dispatched[k].system_prompt_category = UNDEFINED
       /\ k > 1 =>
            /\ dispatched[k].system_prompt_category # UNDEFINED
            /\ dispatched[k].system_prompt_category =
                 dispatched[2].system_prompt_category
            /\ \A d \in 1..6 :
                 dispatched[1].text = <<DigitChar(d)>> =>
                   dispatched[k].system_prompt_category = d
       /\ (k > 1 /\ k = Len(dispatched) /\ pc = "done"
             /\ ~dispatched[k].failed /\ isdigit(dispatched[k].text)) =>
            IF dispatched[k].system_prompt_category = CALCULATION_BASED
                 /\ ~dispatched[k].is_calculated
            THEN raised.type = "Exception"
                   /\ system_prompt_category = CALCULATION_BASED
            ELSE answer = dispatched[k].text
  /\ (pc = "request" /\ Len(dispatched) >= 1) =>
       /\ system_prompt_category # UNDEFINED
       /\ \A d \in 1..6 :
            dispatched[1].text = <<DigitChar(d)>> => system_prompt_category = d
  /\ Len(dispatched) >= 2 =>
       system_prompt_category = dispatched[2].system_prompt_category

\* A question classified as 2 was answered "5": the category is still 2 and
\* the answer is "5".
C14_Witness ==
  /\ pc = "done"
  /\ Len(dispatched) = 2
  /\ dispatched[1].text = <<"2">>
  /\ dispatched[2].text = <<"5">>
  /\ system_prompt_category = CONCEPTUAL_INFORMATIONAL
  /\ answer = <<"5">>

\* A conversation of exactly two entries, the instruction under the system
\* role and then the question under the user role.
TwoEntries(conversation, instruction, question) ==
  conversation = << [role |-> <<"system">>, content |-> instruction],
                    [role |-> <<"user">>, content |-> question] >>

\* C15: every conversation dispatched has exactly two entries: the first is
\* the system-role instruction of the stage (the classification instruction at
\* the first dispatch, the specialized instruction of the category at the
\* second, the answer prompt with the context at the third, which only a
\* calculation has), the second is the user's question as get_mathbot_answer
\* received it; the conversation between dispatches is the same but for the
\* content of its first entry, and no reply is ever an entry of it.
C15_ConversationKeepsTwoEntries ==
  /\ \A k \in 1..Len(dispatched) :
       \E question \in Questions :
         /\ dispatched[1].messages[2].content = question
         /\ k = 1 => TwoEntries(dispatched[k].messages, SYSTEM_PROMPT, question)
         /\ k = 2 =>
              /\ dispatched[k].system_prompt_category \in 1..6
              /\ ~dispatched[k].is_calculated
              /\ TwoEntries(dispatched[k].messages,
                            InstructionOfDigit(
                              dispatched[k].system_prompt_category),
                            question)
         /\ k = 3 =>
              /\ dispatched[k].system_prompt_category = CALCULATION_BASED
              /\ dispatched[k].is_calculated
              /\ startswith(dispatched[k].messages[1].content, AnswerPromptHead)
              /\ TwoEntries(dispatched[k].messages,
                            dispatched[k].messages[1].content, question)
         /\ k <= 3
  /\ pc # "idle" =>
       /\ Len(messages) = 2
       /\ TwoEntries(messages, messages[1].content, messages[2].content)
       /\ messages[2].content \in Questions
       /\ dispatched # <<>> => messages[2] = dispatched[1].messages[2]
       /\ \A k \in 1..Len(dispatched), j \in 1..Len(messages) :
            ~dispatched[k].failed =>
              messages[j].content # dispatched[k].text

\* The answer dispatch of a calculation carried the answer prompt and the
\* question of the first dispatch, and nothing else.
C15_Witness ==
  /\ pc = "done"
  /\ Len(dispatched) = 3
  /\ Len(dispatched[3].messages) = 2
  /\ startswith(dispatched[3].messages[1].content, AnswerPromptHead)
  /\ dispatched[3].messages[2] = dispatched[1].messages[2]
  /\ dispatched[1].messages[1].content = SYSTEM_PROMPT

\* This step dispatches a conversation: the log of the question gets one
\* more entry.
Dispatches == Len(dispatched') = Len(dispatched) + 1

\* C16: no step decreases total_num_tokens_used; a step that dispatches a
\* conversation, whether the backend replies or fails, adds to it the token
\* estimate of the conversation dispatched, once; every other step, the start
\* of a new question included, leaves it as it is.
C16_CounterGrowsByEstimatePerDispatch ==
  [][/\ total_num_tokens_used' >= total_num_tokens_used
     /\ Dispatches =>
          /\ dispatched'[Len(dispatched')].messages = messages
          /\ total_num_tokens_used'
               = total_num_tokens_used + num_tokens_from_messages(messages)
     /\ ~Dispatches => total_num_tokens_used' = total_num_tokens_used]_vars

\* The second question ended on a dispatch the backend failed: the counter
\* holds the estimates of both its dispatches on top of what the first
\* question left.
C16_Witness ==
  /\ asked = 2
  /\ pc = "done"
  /\ Len(dispatched) = 2
  /\ dispatched[2].failed
  /\ total_num_tokens_used
       > num_tokens_from_messages(dispatched[1].messages)
           + num_tokens_from_messages(dispatched[2].messages)

(***************************************************************************)
(* The claims about failures in write_mathbot_answers, checked under       *)
(* BatchSpec.                                                              *)
(***************************************************************************)
\* C17: when get_mathbot_answer fails on the question of a row, its text,
\* which starts with "Error:", is written to the answer cell of that row and
\* of no other, the row is counted in num_answers as an answered one is, the
\* loop goes on to the next row, and the failure is not what makes the run
\* return False: a run all of whose store operations succeeded returns True.
C17_QuestionFailureIsWrittenAndPassed ==
  RunStarted =>
    /\ \A k \in 1..Len(batch.written) :
         batch.written[k].failed =>
           /\ startswith(batch.written[k].text, <<"E", "r", "r", "o", "r", ":">>)
           /\ batch.written[k].i = batch.submitted[k]
           /\ batch.written[k].row = FirstRow + batch.submitted[k]
           /\ sheet[FirstRow + batch.submitted[k]].answer = batch.written[k].text
           /\ \A r \in Rows \ {FirstRow + batch.submitted[k]} :
                sheet[r].answer # batch.start[r].answer => Written(r)
           /\ batch.num_answers >= k
           /\ batch.i > batch.submitted[k]
           /\ batch.failure \in {"none", "write", "index"}
           /\ (batch.pc = "returned" /\ batch.failure = "none") => batch.ret
    /\ (batch.pc = "answering" /\ pc = "done") => batch.failure = "none"

\* The question of the first row failed, its error text is in the first
\* row's answer cell, the second row was answered "2" and the run returned
\* True.
C17_Witness ==
  /\ RunStarted
  /\ batch.pc = "returned"
  /\ batch.ret
  /\ Len(batch.written) = 2
  /\ batch.written[1].failed
  /\ startswith(sheet[FirstRow].answer, <<"E", "r", "r", "o", "r", ":">>)
  /\ sheet[FirstRow + 1].answer = <<"2">>

\* Every cell the current run wrote holds what was written, every other cell
\* what the run found.
WrittenCellsKept ==
  \A r \in Rows :
    IF Written(r)
    THEN \E k \in 1..Len(batch.written) :
           batch.written[k].row = r /\ sheet[r].answer = batch.written[k].text
    ELSE sheet[r] = batch.start[r]

\* C18: a run that fails as a whole (no identifier in the URL, a read or a
\* write of the store that raises) has returned False and submits nothing
\* more; the cells written before the failure hold what was written; a failed
\* read comes before any submission; and with no identifier in the URL there
\* has been no store operation, no dispatch and no token counted.
C18_BatchFailureAborts ==
  RunStarted =>
    /\ batch.failure # "none" =>
         /\ batch.pc = "returned"
         /\ ~batch.ret
         /\ pc \in {"idle", "done"}
         /\ WrittenCellsKept
    /\ (batch.pc = "returned" /\ ~batch.ret) => batch.failure # "none"
    /\ batch.failure = "url" =>
         /\ batch.store_ops = 0
         /\ batch.submitted = <<>>
         /\ batch.written = <<>>
         /\ dispatched = <<>>
         /\ total_num_tokens_used = 0
         /\ sheet = batch.start
    /\ batch.failure = "read" =>
         /\ batch.store_ops \in 1..2
         /\ batch.submitted = <<>>
         /\ dispatched = <<>>
         /\ sheet = batch.start
    /\ batch.failure = "write" =>
         /\ Len(batch.submitted) = Len(batch.written) + 1
         /\ batch.num_answers = Len(batch.written)
         /\ ~Written(FirstRow + batch.submitted[Len(batch.submitted)])

\* The write of the second answer raised: the run returned False and the
\* first row holds the answer written before.
C18_Witness ==
  /\ RunStarted
  /\ batch.failure = "write"
  /\ batch.pc = "returned"
  /\ ~batch.ret
  /\ Len(batch.written) = 1
  /\ Len(batch.submitted) = 2
  /\ sheet[FirstRow].answer = batch.written[1].text
  /\ sheet[FirstRow].answer # batch.start[FirstRow].answer

(***************************************************************************)
(* The claim about the length of the routing of one question, checked      *)
(* under Spec.                                                             *)
(***************************************************************************)
\* The stage of a dispatch, from the arguments of its call.
StageOf(dispatch) ==
  IF dispatch.system_prompt_category = UNDEFINED THEN "classification"
  ELSE IF dispatch.system_prompt_category = CALCULATION_BASED
            /\ ~dispatch.is_calculated
  THEN "extraction"
  ELSE "answer"

\* C19: a question is dispatched at most 3 times, and its routing is over
\* after 1 dispatch when classification fails, after exactly 2 under a
\* category from 2 to 6, after 2 or 3 for a calculation; only the first
\* dispatch is at the classification stage, only the second can be at the
\* extraction stage, and every call pending has a dispatch left to make.
C19_AtMostThreeDispatches ==
  /\ Len(dispatched) <= 3
  /\ pc = "request" => Len(dispatched) <= 2
  /\ \A k \in 1..Len(dispatched) :
       /\ StageOf(dispatched[k]) = "classification" <=> k = 1
       /\ StageOf(dispatched[k]) = "extraction" => k = 2
       /\ k = 3 => /\ StageOf(dispatched[2]) = "extraction"
                   /\ dispatched[3].system_prompt_category = CALCULATION_BASED
                   /\ dispatched[3].is_calculated
  /\ (pc = "done" /\ dispatched # <<>>) =>
       /\ Len(dispatched) >= 1
       /\ Len(dispatched) = 1 <=>
            (dispatched[1].failed \/ raised.type \in {"Exception", "ValueError"})
              /\ StageOf(dispatched[Len(dispatched)]) = "classification"
       /\ system_prompt_category \in 2..6 /\ Len(dispatched) > 1 =>
            Len(dispatched) = 2
       /\ (system_prompt_category = CALCULATION_BASED /\ Len(dispatched) > 1)
            => Len(dispatched) \in {2, 3}
       /\ Len(dispatched) > 1 => system_prompt_category \in 1..6

\* A calculation went through classification, extraction and answer, in
\* three dispatches.
C19_Witness ==
  /\ pc = "done"
  /\ Len(dispatched) = 3
  /\ StageOf(dispatched[1]) = "classification"
  /\ StageOf(dispatched[2]) = "extraction"
  /\ StageOf(dispatched[3]) = "answer"

(***************************************************************************)
(* The claim about recovery by running again, checked under BatchSpec.     *)
(***************************************************************************)
\* The text is a non-error answer: there is something in it besides
\* whitespace, and it does not start with "Error:".
NonErrorAnswer(text) ==
  /\ \E k \in 1..Len(text) : text[k] \notin {" ", "\n", "\t"}
  /\ ~startswith(text, <<"E", "r", "r", "o", "r", ":">>)

\* Row r is the first row the current run found in want of an answer: it and
\* the rows above it have a question, the rows above it a non-error answer,
\* and it has none.
FirstPending(r) ==
  /\ \A q \in FirstRow..r : batch.start[q].question # <<>>
  /\ \A q \in FirstRow..(r - 1) : NonErrorAnswer(batch.start[q].answer)
  /\ ~NonErrorAnswer(batch.start[r].answer)

\* C20: what a run has written is in the store whenever it is interrupted,
\* and a run with a positive budget whose store operations all succeed, once
\* it has returned, has submitted the first row in want of an answer and has
\* returned True: repeated runs make their way down the rows, so that every
\* row above the first empty question comes to hold a non-error answer once
\* the backend answers it.
C20_RerunningRecovers ==
  RunStarted =>
    /\ batch.pc = "crashed" =>
         /\ WrittenCellsKept
         /\ Len(batch.submitted) <= Len(batch.written) + 1
    /\ (batch.pc = "returned" /\ batch.max_num_answers >= 1
          /\ batch.failure \notin {"url", "read", "write"}) =>
         \A r \in Rows : FirstPending(r) => (Submitted(r) /\ batch.ret)

====
